---- MODULE Spec2Model ----
(***************************************************************************)
(* A model of sasctl/pzmm/model_parameters.py: the file locator            *)
(* (_find_file), the KPI merger (_update_json), the hyperparameter store   *)
(* (get_hyperparameters, add_hyperparameters), the KPI table fetcher       *)
(* (get_project_kpis) and the batch update (update_kpis).                  *)
(*                                                                         *)
(* Text that the code transforms (file names, table cells) is a sequence   *)
(* of one-character strings, so that lower(), strip() and substring        *)
(* containment are computed.  Opaque text (ids of the identifier           *)
(* resolver, column names, dictionary keys) is a TLA+ string.  A dict is a *)
(* function from its keys to its values.  Every remote call the code makes *)
(* is appended to the variable calls, in the order the code makes it.      *)
(***************************************************************************)
EXTENDS Integers, Sequences, FiniteSets, TLC

VARIABLES
    op,                \* the operation under way
    args,              \* its arguments
    pc,                \* "start", "loop", "done" (returned) or "raised"
    result,            \* what the operation returned or raised
    calls,             \* the remote calls issued so far, in order
    kpis,              \* update_kpis: the fetched KPI table
    models_to_update,  \* update_kpis: the list it iterates over
    idx,               \* update_kpis: position of the loop in that list
    notices            \* update_kpis: the models whose skip notice was printed

vars == <<op, args, pc, result, calls, kpis, models_to_update, idx, notices>>

\* ------------------------------------------------------------------ bounds

\* Longest file list a model's content listing returns.
MaxFiles == 3

\* Most rows a row-set response carries.
MaxRows == 3

SeqsUpTo(S, n) == UNION {[1..k -> S] : k \in 0..n}

\* ------------------------------------------------------------------ text

\* str.lower() on the characters the model uses.
LowerChar(c) ==
    CASE c = "H" -> "h"
      [] c = "P" -> "p"
      [] c = "X" -> "x"
      [] c = "M" -> "m"
      [] OTHER -> c

Lower(s) == [i \in 1..Len(s) |-> LowerChar(s[i])]

\* Python's `sub in s` on strings.
Contains(sub, s) ==
    \E off \in 0..(Len(s) - Len(sub)) : SubSeq(s, off + 1, off + Len(sub)) = sub

\* The test of line 37 without the two lower() calls.
InNameCaseSensitive(file_name, name) == Contains(file_name, name)

\* file_name.lower() in file.name.lower()
InName(file_name, name) == Contains(Lower(file_name), Lower(name))

\* The literal "hyperparameters" of lines 145 and 176.
HYPERPARAMETERS ==
    <<"h","y","p","e","r","p","a","r","a","m","e","t","e","r","s">>

\* ------------------------------------------------------------ remote calls

\* A remote call: what was called, on what, with what, and what came back.
Call(name, target, detail, reply) ==
    [call |-> name, target |-> target, detail |-> detail, reply |-> reply]

Failed == [ok |-> FALSE]

Replied(v) == [ok |-> TRUE, value |-> v]

NoContent == [none |-> TRUE]

\* The for loop of _find_file: the index of the first file whose name holds
\* file_name, from position i on; 0 when the loop runs off the list.
RECURSIVE FirstMatchFrom(_, _, _)
FirstMatchFrom(files, file_name, i) ==
    IF i > Len(files) THEN 0
    ELSE IF InName(file_name, files[i].name) THEN i
    ELSE FirstMatchFrom(files, file_name, i + 1)

\* What a content listing shows of the stored files: id and name.
Listed(files) ==
    [i \in 1..Len(files) |-> [id |-> files[i].id, name |-> files[i].name]]

\* _find_file(model, file_name).  env is what the repository answers:
\* env.listOk (get_model_contents returns), env.files (the stored files, each
\* with its content), env.fetchOk (the content GET returns).
FindFile(model, file_name, env) ==
    LET list == Call("get_model_contents", model, [file |-> 0],
                     IF env.listOk THEN Replied(Listed(env.files)) ELSE Failed)
    IN  IF ~env.listOk
        THEN [status |-> "raised", error |-> "ClientError", content |-> NoContent,
              name |-> <<>>, calls |-> <<list>>]
        ELSE LET i == FirstMatchFrom(env.files, file_name, 1)
             IN  IF i = 0
                 THEN [status |-> "raised", error |-> "ValueError",
                       content |-> NoContent, name |-> <<>>, calls |-> <<list>>]
                 ELSE LET get == Call("get_content", model,
                                      [file |-> env.files[i].id],
                                      IF env.fetchOk
                                      THEN Replied(env.files[i].content)
                                      ELSE Failed)
                      IN  IF ~env.fetchOk
                          THEN [status |-> "raised", error |-> "ClientError",
                                content |-> NoContent, name |-> <<>>,
                                calls |-> <<list, get>>]
                          ELSE [status |-> "ok", error |-> "",
                                content |-> env.files[i].content,
                                name |-> env.files[i].name,
                                calls |-> <<list, get>>]

\* ------------------------------------------------- specification: _find_file

\* File names and fragments the locator is tried on.
FindNames ==
    { <<"h","p">>, <<"H","P">>, <<"x","h","p">>, <<"H","p","x">>, <<"p">>, <<"x">> }

FindFragments ==
    { <<>>, <<"h","p">>, <<"H","P">>, <<"p">>, <<"P","h">>, <<"h","p","x">> }

\* A listing of the given names: file ids follow the listing order and each
\* file's content is tagged with its id.
Listing(names) ==
    [i \in 1..Len(names) |->
        [id |-> i, name |-> names[i], content |-> [file |-> i]]]

NoTable == [columns |-> <<>>, rows |-> <<>>]

InitFind ==
    /\ op = "find_file"
    /\ \E f \in FindFragments, ns \in SeqsUpTo(FindNames, MaxFiles) :
          args = [model |-> "u1", file_name |-> f, files |-> Listing(ns)]
    /\ pc = "start"
    /\ result = [status |-> "none"]
    /\ calls = <<>>
    /\ kpis = NoTable
    /\ models_to_update = <<>>
    /\ idx = 0
    /\ notices = <<>>

FindFileCall ==
    /\ op = "find_file"
    /\ pc = "start"
    /\ \E listOk \in BOOLEAN, fetchOk \in BOOLEAN :
          LET r == FindFile(args.model, args.file_name,
                            [listOk |-> listOk, files |-> args.files,
                             fetchOk |-> fetchOk])
          IN  /\ result' = r
              /\ calls' = calls \o r.calls
              /\ pc' = IF r.status = "ok" THEN "done" ELSE "raised"
    /\ UNCHANGED <<op, args, kpis, models_to_update, idx, notices>>

NextFind == FindFileCall

SpecFind == InitFind /\ [][NextFind]_vars

\* The listing was returned: the first call of the run succeeded.
FindListed ==
    pc # "start" /\ ~(result.error = "ClientError" /\ Len(calls) = 1)

\* Position k of name holds fragment f, compared character by character
\* without regard to case.
HoldsAt(f, name, k) ==
    /\ k + Len(f) - 1 <= Len(name)
    /\ \A j \in 1..Len(f) : LowerChar(name[k + j - 1]) = LowerChar(f[j])

Holds(f, name) == \E k \in 1..(Len(name) + 1) : HoldsAt(f, name, k)

FirstHolding(f, files) ==
    IF \E i \in 1..Len(files) : Holds(f, files[i].name)
    THEN CHOOSE i \in 1..Len(files) :
            /\ Holds(f, files[i].name)
            /\ \A j \in 1..(i - 1) : ~Holds(f, files[j].name)
    ELSE 0

ContentGets == SelectSeq(calls, LAMBDA c : c.call = "get_content")

\* C3: once the listing L is returned, _find_file fetches the content of the
\* first entry of L whose name contains F case-insensitively and of no other
\* entry, and returns that content with the entry's exact stored name; when
\* no entry matches it raises the not-found ValueError and fetches nothing.
C3_FirstMatch ==
    (op = "find_file" /\ FindListed) =>
        LET i == FirstHolding(args.file_name, args.files)
        IN  IF i = 0
            THEN /\ pc = "raised"
                 /\ result.error = "ValueError"
                 /\ ContentGets = <<>>
            ELSE /\ Len(ContentGets) = 1
                 /\ ContentGets[1].detail.file = args.files[i].id
                 /\ pc = "done" =>
                      /\ result.content = args.files[i].content
                      /\ result.name = args.files[i].name
                 /\ pc = "raised" => result.error = "ClientError"

\* C3 witness: a listing whose second entry is the first match, found under
\* a fragment that differs from the stored name in case.
C3_Witness ==
    /\ op = "find_file"
    /\ pc = "done"
    /\ Len(args.files) = 2
    /\ FirstHolding(args.file_name, args.files) = 2
    /\ ~Contains(args.file_name, args.files[2].name)
    /\ result.name = args.files[2].name

\* ------------------------------------------------------------- data frames

\* A pandas DataFrame of text cells: its column names and its rows, each row
\* a sequence of cells in column order.  NULL is the missing value (None).
NULL == <<"NULL">>

\* Elementwise == of a column against a value: a missing cell equals nothing,
\* not even a missing value.
PdEq(cell, value) == cell # NULL /\ value # NULL /\ cell = value

ColIndex(df, c) == CHOOSE i \in 1..Len(df.columns) : df.columns[i] = c

\* df[c]
Column(df, c) == [r \in 1..Len(df.rows) |-> df.rows[r][ColIndex(df, c)]]

RemoveAt(s, i) == SubSeq(s, 1, i - 1) \o SubSeq(s, i + 1, Len(s))

\* df.drop(columns=[c])
DropColumn(df, c) ==
    LET i == ColIndex(df, c)
    IN  [columns |-> RemoveAt(df.columns, i),
         rows |-> [r \in 1..Len(df.rows) |-> RemoveAt(df.rows[r], i)]]

\* df.set_index(c): the column leaves the data and labels the rows.
SetIndex(df, c) ==
    [index |-> Column(df, c),
     columns |-> DropColumn(df, c).columns,
     rows |-> DropColumn(df, c).rows]

IsUnique(s) == \A i, j \in 1..Len(s) : i # j => s[i] # s[j]

\* json.loads(df.to_json(orient="index")) of lines 69-70: one object per row
\* label, holding the row's cells by column name.  to_json refuses an index
\* with a repeated label (ValueError).  Every row of the tables modelled
\* carries a TimeLabel, so every label is a string and is its own key.
ToJsonIndex(ix) ==
    IF ~IsUnique(ix.index)
    THEN [status |-> "raised", error |-> "ValueError", value |-> NoContent]
    ELSE [status |-> "ok", error |-> "",
          value |->
            [k \in {ix.index[r] : r \in 1..Len(ix.rows)} |->
                LET r == CHOOSE r \in 1..Len(ix.rows) : ix.index[r] = k
                IN  [c \in {ix.columns[i] : i \in 1..Len(ix.columns)} |->
                        ix.rows[r][CHOOSE i \in 1..Len(ix.columns) :
                                        ix.columns[i] = c]]]]

\* Line 65 without its filter: every row of the table.
AllRows(model, df) == df

\* kpis.loc[kpis["ModelUUID"] == model]
ModelRows(model, df) ==
    [columns |-> df.columns,
     rows |-> SelectSeq(df.rows,
                 LAMBDA row : PdEq(row[ColIndex(df, "ModelUUID")], model))]

\* model_json["kpis"] = parsed_json
SetKey(d, key, v) ==
    [k \in DOMAIN d \cup {key} |-> IF k = key THEN v ELSE d[k]]

\* The body of _update_json run whether or not a row was selected.
UpdateJsonUnguarded(model, model_json, df) ==
    LET parsed == ToJsonIndex(SetIndex(DropColumn(ModelRows(model, df),
                                                  "ModelUUID"), "TimeLabel"))
    IN  IF parsed.status = "raised" THEN parsed
        ELSE [status |-> "ok", error |-> "",
              value |-> SetKey(model_json, "kpis", parsed.value)]

\* _update_json(model, model_json, kpis)
UpdateJson(model, model_json, df) ==
    LET model_rows == ModelRows(model, df)
    IN  IF model_rows.rows # <<>>
        THEN LET parsed == ToJsonIndex(SetIndex(DropColumn(model_rows,
                                                  "ModelUUID"), "TimeLabel"))
             IN  IF parsed.status = "raised" THEN parsed
                 ELSE [status |-> "ok", error |-> "",
                       value |-> SetKey(model_json, "kpis", parsed.value)]
        ELSE [status |-> "ok", error |-> "", value |-> model_json]

\* ---------------------------------------------- specification: _update_json

S_m1 == <<"m","1">>
S_m2 == <<"m","2">>
S_m3 == <<"m","3">>
S_n1 == <<"n","1">>
S_n2 == <<"n","2">>
S_t0 == <<"t","0">>
S_t1 == <<"t","1">>
S_t2 == <<"t","2">>
S_a5 == <<"0",".","5">>
S_a7 == <<"0",".","7">>
S_a9 == <<"0",".","9">>

KpiColumns == <<"ModelUUID", "ModelName", "TimeLabel", "AUC">>

\* Rows of a KPI table as get_project_kpis returns them.
KpiRows ==
    { <<S_m1, S_n1, S_t1, S_a9>>,
      <<S_m1, S_n1, S_t2, NULL>>,
      <<S_m1, S_n1, S_t1, S_a5>>,
      <<S_m2, S_n2, S_t1, S_a7>>,
      <<S_m2, S_n2, S_t2, S_a5>>,
      <<NULL, S_n1, S_t1, S_a9>> }

\* Hyperparameter documents: with and without a previous kpis entry, with
\* and without a further top-level key.
OldKpis == [l \in {S_t0, S_t1} |-> [ModelName |-> S_n1, AUC |-> S_a5]]

Docs ==
    { [hyperparameters |-> [C |-> 1]],
      [hyperparameters |-> [C |-> 1], kpis |-> OldKpis],
      [hyperparameters |-> [C |-> 1, max_depth |-> 3], kpis |-> OldKpis,
       note |-> 7] }

InitMerge ==
    /\ op = "update_json"
    /\ \E m \in {S_m1, S_m2, S_m3, NULL}, d \in Docs,
          rows \in SeqsUpTo(KpiRows, MaxRows) :
          args = [model |-> m, model_json |-> d,
                  kpis |-> [columns |-> KpiColumns, rows |-> rows]]
    /\ pc = "start"
    /\ result = [status |-> "none"]
    /\ calls = <<>>
    /\ kpis = NoTable
    /\ models_to_update = <<>>
    /\ idx = 0
    /\ notices = <<>>

UpdateJsonCall ==
    /\ op = "update_json"
    /\ pc = "start"
    /\ result' = UpdateJson(args.model, args.model_json, args.kpis)
    /\ pc' = IF result'.status = "ok" THEN "done" ELSE "raised"
    /\ UNCHANGED <<op, args, calls, kpis, models_to_update, idx, notices>>

NextMerge == UpdateJsonCall

SpecMerge == InitMerge /\ [][NextMerge]_vars

\* The rows of the table argument that belong to the model argument.
OwnRows ==
    {r \in 1..Len(args.kpis.rows) : args.kpis.rows[r][1] = args.model}

OwnLabels == {args.kpis.rows[r][3] : r \in OwnRows}

LabelsDistinct ==
    \A r, q \in OwnRows : r # q => args.kpis.rows[r][3] # args.kpis.rows[q][3]

\* What C4 says of the returned document.
MergedAsClaimed ==
    /\ pc = "done"
    /\ DOMAIN result.value = DOMAIN args.model_json \cup {"kpis"}
    /\ \A k \in DOMAIN args.model_json \ {"kpis"} :
          result.value[k] = args.model_json[k]
    /\ DOMAIN result.value["kpis"] = OwnLabels
    /\ \A l \in OwnLabels :
          /\ "ModelUUID" \notin DOMAIN result.value["kpis"][l]
          /\ \E r \in OwnRows :
                /\ args.kpis.rows[r][3] = l
                /\ result.value["kpis"][l] =
                      [ModelName |-> args.kpis.rows[r][2],
                       AUC |-> args.kpis.rows[r][4]]

\* C4 as stated: for every model id M and every table with at least one row
\* of M, _update_json returns the document with kpis replaced by the map of
\* M's rows keyed by TimeLabel, every other key unchanged.
C4_Original ==
    (op = "update_json" /\ pc # "start" /\ args.model # NULL /\ OwnRows # {})
        => MergedAsClaimed

\* C4 amended: the same, for tables in which the TimeLabel values of M's rows
\* are pairwise distinct; when two rows of M share a TimeLabel the
\* call raises and returns no document.
C4_MergeDistinctLabels ==
    (op = "update_json" /\ pc # "start" /\ args.model # NULL /\ OwnRows # {})
        => /\ LabelsDistinct => MergedAsClaimed
           /\ (\E r, q \in OwnRows :
                  r # q /\ args.kpis.rows[r][3] = args.kpis.rows[q][3])
                 => pc = "raised"

\* C4 witness: a table with a row of M and a row of another model, merged
\* into a document that had a kpis entry and a further key.
C4_Witness ==
    /\ op = "update_json"
    /\ pc = "done"
    /\ args.model = S_m1
    /\ OwnRows # {}
    /\ \E r \in 1..Len(args.kpis.rows) : args.kpis.rows[r][1] = S_m2
    /\ "kpis" \in DOMAIN args.model_json
    /\ "note" \in DOMAIN args.model_json
    /\ result.value["kpis"] # args.model_json["kpis"]

\* C5: with no row of the table belonging to M (a missing M owns no row),
\* _update_json returns the input document unchanged and raises nothing.
C5_NoRowsNoChange ==
    (op = "update_json" /\ pc # "start"
        /\ (args.model = NULL \/ OwnRows = {}))
        => /\ pc = "done"
           /\ result.value = args.model_json

\* C5 witness: a non-empty table of other models' rows and a document with a
\* previous kpis entry, returned as it was.
C5_Witness ==
    /\ op = "update_json"
    /\ pc = "done"
    /\ args.model = S_m3
    /\ Len(args.kpis.rows) = 2
    /\ "kpis" \in DOMAIN args.model_json
    /\ result.value = args.model_json

\* ----------------------------------------------------- identifier resolver

\* A model or project reference: a string (an id or a display name), a
\* mapping with an id field, or the object a lookup returned.
StrRef(v) == [kind |-> "str", val |-> v, name |-> ""]

DictRef(id) == [kind |-> "dict", val |-> id, name |-> ""]

ObjRef(e) == [kind |-> "obj", val |-> e.id, name |-> e.name]

\* The strings that pass the id-format check.
UuidStrings == {"u1", "u2", "u9", "p1", "p9"}

\* What the server holds.  Ids the server gives out pass the format check.
ModelRegistry == {[id |-> "u1", name |-> "alpha"], [id |-> "u2", name |-> "abc"]}

ProjectRegistry == {[id |-> "p1", name |-> "proj"]}

\* is_uuid: a format check on strings, no existence check.
IsUuid(ref) == ref.kind = "str" /\ ref.val \in UuidStrings

\* isinstance(x, dict) and "id" in x
HasId(ref) == ref.kind \in {"dict", "obj"}

\* get_model / get_project of the repository client: by id for an id-shaped
\* string or a mapping, by display name for any other string; an object it
\* returned earlier is returned as is.
Lookup(registry, ref) ==
    LET hits ==
            IF ref.kind = "obj" THEN {e \in registry : e.id = ref.val}
            ELSE IF ref.kind = "dict" \/ IsUuid(ref)
            THEN {e \in registry : e.id = ref.val}
            ELSE {e \in registry : e.name = ref.val}
    IN  IF hits = {} THEN Failed ELSE Replied(ObjRef(CHOOSE e \in hits : TRUE))

\* The if / elif / else that turns a reference into an id (lines 169-175,
\* 194-200, 260-266).  The else branch rebinds the reference to the object
\* the lookup returned; indexing the result of a lookup that found nothing
\* raises.
Resolve(ref, registry, getter) ==
    IF IsUuid(ref)
    THEN [status |-> "ok", id |-> ref.val, ref |-> ref, calls |-> <<>>]
    ELSE IF HasId(ref)
    THEN [status |-> "ok", id |-> ref.val, ref |-> ref, calls |-> <<>>]
    ELSE LET found == Lookup(registry, ref)
             call == Call(getter, ref, [site |-> "resolve"], found)
         IN  IF found.ok
             THEN [status |-> "ok", id |-> found.value.val,
                   ref |-> found.value, calls |-> <<call>>]
             ELSE [status |-> "raised", id |-> "", ref |-> ref,
                   calls |-> <<call>>]

\* ---------------------------------------------------- hyperparameter store

\* get_hyperparameters(model)
GetHyperparameters(model, env) ==
    LET r == Resolve(model, ModelRegistry, "get_model")
    IN  IF r.status = "raised"
        THEN [status |-> "raised", error |-> "LookupError",
              content |-> NoContent, name |-> <<>>, calls |-> r.calls]
        ELSE LET f == FindFile(r.id, HYPERPARAMETERS, env)
             IN  [f EXCEPT !.calls = r.calls \o f.calls]

\* The loop of lines 202-203 adding only the keys the map does not hold yet.
UpsertKeepExisting(h, kw) ==
    [k \in DOMAIN h \cup DOMAIN kw |-> IF k \in DOMAIN h THEN h[k] ELSE kw[k]]

\* for key, value in kwargs.items(): hyperparameters[key] = value
Upsert(h, kw) ==
    [k \in DOMAIN h \cup DOMAIN kw |-> IF k \in DOMAIN kw THEN kw[k] ELSE h[k]]

\* json.dumps(document, indent=4): the text of the document.
Dumps(d) == [indent |-> 4, json |-> d]

\* add_hyperparameters(model, **kwargs).  The upload goes to the reference as
\* rebound by the resolution; get_hyperparameters is handed the id as a string
\* and resolves it again.
AddHyperparameters(model, kwargs, env, uploadOk) ==
    LET r == Resolve(model, ModelRegistry, "get_model")
    IN  IF r.status = "raised"
        THEN [status |-> "raised", error |-> "LookupError", calls |-> r.calls]
        ELSE LET g == GetHyperparameters(StrRef(r.id), env)
             IN  IF g.status = "raised"
                 THEN [status |-> "raised", error |-> g.error,
                       calls |-> r.calls \o g.calls]
                 ELSE LET doc == [g.content EXCEPT
                                    !["hyperparameters"] = Upsert(@, kwargs)]
                          up == Call("add_model_content", r.ref,
                                     [content |-> Dumps(doc), name |-> g.name],
                                     IF uploadOk THEN Replied(0) ELSE Failed)
                      IN  [status |-> IF uploadOk THEN "ok" ELSE "raised",
                           error |-> IF uploadOk THEN "" ELSE "ClientError",
                           calls |-> r.calls \o g.calls \o <<up>>]

\* -------------------------------------------------------- KPI table fetcher

\* An argument left at its default None.
NONE == "<None>"

\* Truth value of an optional string argument.
Truthy(x) == x # NONE /\ x # ""

RECURSIVE StripLeft(_)
StripLeft(s) == IF s # <<>> /\ Head(s) = " " THEN StripLeft(Tail(s)) ELSE s

RECURSIVE StripRight(_)
StripRight(s) ==
    IF s # <<>> /\ s[Len(s)] = " " THEN StripRight(SubSeq(s, 1, Len(s) - 1))
    ELSE s

\* str.strip()
Strip(s) == StripRight(StripLeft(s))

\* .replace({".": None, "": None}) on one cell
ReplaceSentinel(c) == IF c = <<".">> \/ c = <<>> THEN NULL ELSE c

\* The post-processing of line 317 without its strip.
NormalizeCellNoStrip(c) == ReplaceSentinel(c)

\* Lines 317-319 on one cell: strip, then replace the sentinels.
NormalizeCell(c) == ReplaceSentinel(Strip(c))

\* Lines 317-319: every cell of every column.
Normalize(df) ==
    [columns |-> df.columns,
     rows |-> [r \in 1..Len(df.rows) |->
                 [c \in 1..Len(df.rows[r]) |-> NormalizeCell(df.rows[r][c])]]]

\* A message is the sequence of its pieces: the literal text between the
\* interpolated values, and the values.
NoTableMessageNoName(name) ==
    <<"No KPI table exists for project {project.name}.",
      " Please confirm that the performance definition completed",
      " or custom KPIs have been uploaded successfully.">>

\* Lines 278-280: an f-string that interpolates the project's name.
NoTableMessage(name) ==
    <<"No KPI table exists for project ", name, ".",
      " Please confirm that the performance definition completed",
      " or custom KPIs have been uploaded successfully.">>

\* Lines 309-310: a plain string literal, not an f-string; the braces and the
\* names between them are part of the text.
NoFilteredKpisMessage(filter_column, filter_value) ==
    <<"No KPIs were found when filtering with {filter_column}='{filter_value}'.">>

\* Line 314: an f-string.
NoKpisMessage(project_name) ==
    <<"No KPIs were found for project ", project_name, ".">>

\* Lines 288-290
WhereStatement(filter_column, filter_value) ==
    IF Truthy(filter_column) /\ Truthy(filter_value)
    THEN <<"&where=", filter_column, "='", filter_value, "'">>
    ELSE <<>>

KpiError(kind, message, calls_) ==
    [status |-> "raised", error |-> kind, message |-> message,
     value |-> NoTable, calls |-> calls_]

\* get_project_kpis(project, server, caslib, filter_column, filter_value).
\* env is what the tabular service answers: env.schemaOk (the columns
\* response is truthy), env.col_names (the names it lists), env.items (the
\* rows of the row-set response, each a cells array).
GetProjectKpis(project, server, caslib, filter_column, filter_value, env) ==
    LET r == Resolve(project, ProjectRegistry, "get_project")
    IN  IF r.status = "raised" THEN KpiError("LookupError", <<>>, r.calls)
        ELSE
        LET table == <<r.id, ".MM_STD_KPI">>
            columns == Call("GET", "casManagement",
                            [server |-> server, caslib |-> caslib,
                             table |-> table, where |-> <<>>],
                            IF env.schemaOk THEN Replied(env.col_names)
                            ELSE Failed)
        IN  IF ~env.schemaOk
            THEN LET found == Lookup(ProjectRegistry, r.ref)
                     again == Call("get_project", r.ref,
                                   [site |-> "message"], found)
                 IN  IF found.ok
                     THEN KpiError("SystemError",
                                   NoTableMessage(found.value.name),
                                   r.calls \o <<columns, again>>)
                     ELSE KpiError("AttributeError", <<>>,
                                   r.calls \o <<columns, again>>)
            ELSE
            LET where == WhereStatement(filter_column, filter_value)
                rows == Call("GET", "casRowSets",
                             [server |-> server, caslib |-> caslib,
                              table |-> table, where |-> where],
                             Replied(env.items))
            IN  IF env.items = <<>>
                THEN IF Truthy(filter_column) /\ Truthy(filter_value)
                     THEN KpiError("SystemError",
                                   NoFilteredKpisMessage(filter_column,
                                                         filter_value),
                                   r.calls \o <<columns, rows>>)
                     ELSE LET found == Lookup(ProjectRegistry, r.ref)
                              again == Call("get_project", r.ref,
                                            [site |-> "message"], found)
                          IN  IF found.ok
                              THEN KpiError("SystemError",
                                            NoKpisMessage(found.value.name),
                                            r.calls \o <<columns, rows, again>>)
                              ELSE KpiError("TypeError", <<>>,
                                            r.calls \o <<columns, rows, again>>)
                ELSE [status |-> "ok", error |-> "", message |-> <<>>,
                      value |-> Normalize([columns |-> env.col_names,
                                           rows |-> env.items]),
                      calls |-> r.calls \o <<columns, rows>>]

\* ------------------- specification: the store and the fetcher, one call each

F_score == <<"s","c","o","r","e",".","p","y">>

F_hyper ==
    <<"M","y","H","y","p","e","r","p","a","r","a","m","e","t","e","r","s",
      ".","j","s","o","n">>

F_old == <<"h","y","p","e","r","p","a","r","a","m","e","t","e","r","s","_","o","l","d">>

\* What a model may have stored: no hyperparameter file, one behind another
\* file, or two of which the first listed is the older.
RepoFiles ==
    { <<[id |-> 1, name |-> F_score, content |-> NoContent]>> }
    \cup { <<[id |-> 1, name |-> F_score, content |-> NoContent],
             [id |-> 2, name |-> F_hyper, content |-> d]>> : d \in Docs }
    \cup { <<[id |-> 1, name |-> F_old, content |-> d],
             [id |-> 2, name |-> F_hyper,
              content |-> [hyperparameters |-> [C |-> 9]]]>> : d \in Docs }

\* The answers of the repository to one _find_file.
FileEnvs ==
    { [listOk |-> FALSE, files |-> <<>>, fetchOk |-> TRUE] }
    \cup { [listOk |-> TRUE, files |-> fs, fetchOk |-> b] :
             fs \in RepoFiles, b \in BOOLEAN }

ModelRefs ==
    { StrRef("u1"), StrRef("u9"), StrRef("alpha"), StrRef("nosuch"),
      DictRef("u1"), DictRef("abc") }

ProjectRefs ==
    { StrRef("p1"), StrRef("p9"), StrRef("proj"), StrRef("nosuch"),
      DictRef("p1"), DictRef("zz") }

KwargsSets ==
    { <<>>, [max_depth |-> 5], [C |-> 2, max_depth |-> 5] }

C_dot == <<".">>
C_empty == <<>>
C_seven == <<" ","7"," ">>
C_abc == <<"a","b","c">>
C_blank == <<" ">>
C_spdot == <<" ",".">>

\* Rows of cells as the row-set service delivers them.
SentinelRows ==
    { <<C_dot, C_seven>>, <<C_empty, C_abc>>, <<C_seven, C_dot>>,
      <<C_abc, C_empty>>, <<C_blank, C_abc>>, <<C_abc, C_spdot>> }

SchemaNames == { <<"A", "B">>, <<"B", "A">> }

InitOps ==
    /\ \/ /\ op = "get_hyperparameters"
          /\ \E m \in ModelRefs : args = [model |-> m]
       \/ /\ op = "add_hyperparameters"
          /\ \E m \in ModelRefs, kw \in KwargsSets :
                args = [model |-> m, kwargs |-> kw]
       \/ /\ op = "get_project_kpis"
          /\ \E p \in ProjectRefs, fc \in {NONE, "", "Region"},
                fv \in {NONE, "US"} :
                args = [project |-> p, server |-> "cas-shared-default",
                        caslib |-> "ModelPerformanceData",
                        filter_column |-> fc, filter_value |-> fv]
    /\ pc = "start"
    /\ result = [status |-> "none"]
    /\ calls = <<>>
    /\ kpis = NoTable
    /\ models_to_update = <<>>
    /\ idx = 0
    /\ notices = <<>>

GetHyperparametersCall ==
    /\ op = "get_hyperparameters"
    /\ pc = "start"
    /\ \E env \in FileEnvs :
          LET r == GetHyperparameters(args.model, env)
          IN  /\ result' = r
              /\ calls' = calls \o r.calls
              /\ pc' = IF r.status = "ok" THEN "done" ELSE "raised"
    /\ UNCHANGED <<op, args, kpis, models_to_update, idx, notices>>

AddHyperparametersCall ==
    /\ op = "add_hyperparameters"
    /\ pc = "start"
    /\ \E env \in FileEnvs, uploadOk \in BOOLEAN :
          LET r == AddHyperparameters(args.model, args.kwargs, env, uploadOk)
          IN  /\ result' = r
              /\ calls' = calls \o r.calls
              /\ pc' = IF r.status = "ok" THEN "done" ELSE "raised"
    /\ UNCHANGED <<op, args, kpis, models_to_update, idx, notices>>

GetProjectKpisCall ==
    /\ op = "get_project_kpis"
    /\ pc = "start"
    /\ \E schemaOk \in BOOLEAN, names \in SchemaNames,
          items \in SeqsUpTo(SentinelRows, MaxRows) :
          LET r == GetProjectKpis(args.project, args.server, args.caslib,
                                  args.filter_column, args.filter_value,
                                  [schemaOk |-> schemaOk, col_names |-> names,
                                   items |-> items])
          IN  /\ result' = r
              /\ calls' = calls \o r.calls
              /\ pc' = IF r.status = "ok" THEN "done" ELSE "raised"
    /\ UNCHANGED <<op, args, kpis, models_to_update, idx, notices>>

NextOps ==
    \/ GetHyperparametersCall
    \/ AddHyperparametersCall
    \/ GetProjectKpisCall

SpecOps == InitOps /\ [][NextOps]_vars

\* Selections from the calls issued.
CallsOf(name) == SelectSeq(calls, LAMBDA c : c.call = name)

Gets(service) ==
    SelectSeq(calls, LAMBDA c : c.call = "GET" /\ c.target = service)

Uploads == CallsOf("add_model_content")

\* The lookups issued to turn the reference into an id.
ResolveLookups ==
    SelectSeq(calls, LAMBDA c :
        c.call \in {"get_model", "get_project"} /\ c.detail.site = "resolve")

\* The lookups issued to word an error message.
MessageLookups ==
    SelectSeq(calls, LAMBDA c :
        c.call = "get_project" /\ c.detail.site = "message")

MsgContains(message, piece) == \E i \in 1..Len(message) : message[i] = piece

\* The row-set response arrived and held no rows.
NoRowsReturned ==
    /\ Len(Gets("casRowSets")) = 1
    /\ Gets("casRowSets")[1].reply.value = <<>>

\* C2: a filtered get_project_kpis (filter_column and filter_value both
\* supplied) whose row-set response holds no rows fails with a message that
\* contains the filter_column and the filter_value the caller passed.
C2_MessageNamesFilter ==
    (op = "get_project_kpis" /\ pc # "start" /\ NoRowsReturned
        /\ Truthy(args.filter_column) /\ Truthy(args.filter_value))
        => /\ pc = "raised"
           /\ result.error = "SystemError"
           /\ MsgContains(result.message, args.filter_column)
           /\ MsgContains(result.message, args.filter_value)

\* The document the content GET returned, and the stored name the listing
\* gave for the file fetched.
FetchedDoc == ContentGets[1].reply.value

FetchedName ==
    LET listing == CallsOf("get_model_contents")[1].reply.value
        i == CHOOSE i \in 1..Len(listing) :
                listing[i].id = ContentGets[1].detail.file
    IN  listing[i].name

\* C6: add_hyperparameters on a model whose hyperparameter file was found and
\* fetched issues exactly one upload, under the stored name of that file, of
\* the fetched document with every supplied key set to its supplied value in
\* the hyperparameters map, the keys not supplied retained, and every other
\* top-level key unchanged; without a fetched file it uploads nothing.
C6_UploadUpserted ==
    (op = "add_hyperparameters" /\ pc # "start") =>
        IF Len(ContentGets) = 1 /\ ContentGets[1].reply.ok
        THEN /\ Len(Uploads) = 1
             /\ Uploads[1].detail.name = FetchedName
             /\ Uploads[1].detail.content.indent = 4
             /\ LET d == FetchedDoc
                    u == Uploads[1].detail.content.json
                    h == d["hyperparameters"]
                    g == u["hyperparameters"]
                IN  /\ DOMAIN u = DOMAIN d
                    /\ \A k \in DOMAIN d \ {"hyperparameters"} : u[k] = d[k]
                    /\ DOMAIN g = DOMAIN h \cup DOMAIN args.kwargs
                    /\ \A k \in DOMAIN args.kwargs : g[k] = args.kwargs[k]
                    /\ \A k \in DOMAIN h \ DOMAIN args.kwargs : g[k] = h[k]
        ELSE Uploads = <<>>

\* C6 witness: a document with a kpis entry and hyperparameters {C: 1} gets
\* C overwritten and max_depth added, and is uploaded.
C6_Witness ==
    /\ op = "add_hyperparameters"
    /\ pc = "done"
    /\ args.kwargs = [C |-> 2, max_depth |-> 5]
    /\ Len(Uploads) = 1
    /\ "kpis" \in DOMAIN FetchedDoc
    /\ FetchedDoc["hyperparameters"] = [C |-> 1]
    /\ Uploads[1].detail.content.json["hyperparameters"] =
          [C |-> 2, max_depth |-> 5]
    /\ Uploads[1].detail.name = F_hyper

\* The reference the operation was called with.
GivenRef == IF op = "get_project_kpis" THEN args.project ELSE args.model

\* C7: in get_hyperparameters, add_hyperparameters and get_project_kpis a
\* reference that passes the id-format check and a mapping with an id field
\* are resolved with no remote lookup, and any other reference with exactly
\* one, the delegation of add_hyperparameters to get_hyperparameters
\* included.
C7_ResolutionLookups ==
    (op \in {"get_hyperparameters", "add_hyperparameters", "get_project_kpis"}
        /\ pc # "start") =>
        IF (GivenRef.kind = "str" /\ GivenRef.val \in UuidStrings)
              \/ GivenRef.kind = "dict"
        THEN ResolveLookups = <<>>
        ELSE Len(ResolveLookups) = 1

\* The columns response arrived and was empty.
SchemaEmpty ==
    /\ Len(Gets("casManagement")) = 1
    /\ ~Gets("casManagement")[1].reply.ok

\* The projects of the server that a reference denotes.
ProjectsOf(ref) ==
    {e \in ProjectRegistry :
        \/ ref.kind = "dict" /\ e.id = ref.val
        \/ ref.kind = "str" /\ (e.id = ref.val \/ e.name = ref.val)}

\* C8: with an empty column-schema response, get_project_kpis on a reference
\* to a project of the server (id string, mapping with id, or display name)
\* fails with a message that reads "No KPI table exists for project "
\* followed by the project's display name, after exactly one project lookup
\* beyond those of the resolution and without a row-set request.
C8_NoTableNamesProject ==
    (op = "get_project_kpis" /\ pc # "start" /\ SchemaEmpty
        /\ ProjectsOf(args.project) # {}) =>
        /\ pc = "raised"
        /\ result.error = "SystemError"
        /\ result.message[1] = "No KPI table exists for project "
        /\ \E e \in ProjectsOf(args.project) : result.message[2] = e.name
        /\ Len(MessageLookups) = 1
        /\ Len(CallsOf("get_project")) = Len(ResolveLookups) + 1
        /\ Gets("casRowSets") = <<>>

\* C8 witness: the project given by display name, looked up once to resolve
\* it and once more for the message.
C8_Witness ==
    /\ op = "get_project_kpis"
    /\ pc = "raised"
    /\ SchemaEmpty
    /\ args.project = StrRef("proj")
    /\ result.message[2] = "proj"
    /\ Len(CallsOf("get_project")) = 2

\* C9: the table get_project_kpis returns has the column names of the schema
\* response in their order and one row per row of the row-set response in
\* their order, each as wide as the fetched row, and a fetched cell ".", "",
\* " 7 " or "abc" is returned as null, null, "7" and "abc".
C9_SentinelsNormalized ==
    (op = "get_project_kpis" /\ pc = "done") =>
        LET names == Gets("casManagement")[1].reply.value
            raw == Gets("casRowSets")[1].reply.value
            out == result.value
        IN  /\ out.columns = names
            /\ Len(out.rows) = Len(raw)
            /\ \A r \in 1..Len(raw) :
                  /\ Len(out.rows[r]) = Len(raw[r])
                  /\ \A c \in 1..Len(raw[r]) :
                        /\ raw[r][c] = C_dot => out.rows[r][c] = NULL
                        /\ raw[r][c] = C_empty => out.rows[r][c] = NULL
                        /\ raw[r][c] = C_seven => out.rows[r][c] = <<"7">>
                        /\ raw[r][c] = C_abc => out.rows[r][c] = C_abc

\* C9 witness: a returned table that was fetched with all four kinds of cell.
C9_Witness ==
    /\ op = "get_project_kpis"
    /\ pc = "done"
    /\ Gets("casRowSets")[1].reply.value =
          << <<C_dot, C_seven>>, <<C_empty, C_abc>> >>
    /\ result.value.rows = << <<NULL, <<"7">>>>, <<NULL, C_abc>> >>
    /\ result.value.columns = <<"B", "A">>

\* ------------------------------------------------ specification: update_kpis

\* Rows of the MM_STD_KPI table as the row-set service delivers them: padded
\* cells, the missing-value marker ".", two rows of one model with the same
\* TimeLabel, a row with no ModelUUID.
RawKpiRows ==
    { <<S_m1, S_n1, S_t1, S_a9>>,
      <<<<" ","m","1">>, S_n1, S_t2, <<".">>>>,
      <<S_m1, S_n1, S_t1, S_a5>>,
      <<S_m2, S_n2, S_t1, S_a7>>,
      <<S_m2, <<"n","2"," ">>, S_t2, S_a5>>,
      <<<<".">>, S_n1, S_t1, S_a9>> }

\* Line 141 without unique(): one entry per row.
NoDedupe(s) == s

\* Series.unique().tolist(): the values in order of first appearance.
RECURSIVE Unique(_)
Unique(s) ==
    IF s = <<>> THEN <<>>
    ELSE LET before == Unique(SubSeq(s, 1, Len(s) - 1))
             last == s[Len(s)]
         IN  IF \E i \in 1..Len(before) : before[i] = last
             THEN before
             ELSE Append(before, last)

\* Line 147: kpis.loc[kpis["ModelUUID"] == model, "ModelName"]
ModelNames(model, df) == Column(ModelRows(model, df), "ModelName")

InitBatch ==
    /\ op = "update_kpis"
    /\ \E p \in {StrRef("p1"), StrRef("proj")} :
          args = [project |-> p, server |-> "cas-shared-default",
                  caslib |-> "ModelPerformanceData"]
    /\ pc = "start"
    /\ result = [status |-> "none", error |-> "", stage |-> ""]
    /\ calls = <<>>
    /\ kpis = NoTable
    /\ models_to_update = <<>>
    /\ idx = 0
    /\ notices = <<>>

\* Lines 140-141: fetch the table, list its models.
UK_GetKpis ==
    /\ op = "update_kpis"
    /\ pc = "start"
    /\ \E schemaOk \in BOOLEAN, items \in SeqsUpTo(RawKpiRows, MaxRows) :
          LET r == GetProjectKpis(args.project, args.server, args.caslib,
                                  NONE, NONE,
                                  [schemaOk |-> schemaOk,
                                   col_names |-> KpiColumns, items |-> items])
          IN  /\ calls' = calls \o r.calls
              /\ IF r.status = "raised"
                 THEN /\ pc' = "raised"
                      /\ result' = [status |-> "raised", error |-> r.error,
                                    stage |-> "get_project_kpis"]
                      /\ UNCHANGED <<kpis, models_to_update, idx>>
                 ELSE /\ pc' = "loop"
                      /\ kpis' = r.value
                      /\ models_to_update' =
                            Unique(Column(r.value, "ModelUUID"))
                      /\ idx' = 1
                      /\ UNCHANGED result
    /\ UNCHANGED <<op, args, notices>>

\* The loop moves to the next model, or the function returns.
Advance ==
    /\ idx' = idx + 1
    /\ IF idx + 1 > Len(models_to_update)
       THEN /\ pc' = "done"
            /\ result' = [status |-> "ok", error |-> "", stage |-> "loop"]
       ELSE /\ pc' = "loop"
            /\ UNCHANGED result

Abort(error, stage) ==
    /\ pc' = "raised"
    /\ result' = [status |-> "raised", error |-> error, stage |-> stage]
    /\ UNCHANGED idx

\* Lines 143-150: one pass of the loop.  The try holds _find_file alone; the
\* handler reads the model's name from the table; _update_json and the
\* upload run in the else clause, outside the try.  The repository holds no
\* model under a missing id: the listing for one fails.
UK_Iteration ==
    /\ op = "update_kpis"
    /\ pc = "loop"
    /\ \E env \in {e \in FileEnvs : models_to_update[idx] = NULL => ~e.listOk},
          uploadOk \in BOOLEAN :
          LET model == models_to_update[idx]
              f == FindFile(model, HYPERPARAMETERS, env)
          IN  IF f.status = "raised"
              THEN /\ calls' = calls \o f.calls
                   /\ IF ModelNames(model, kpis) = <<>>
                      THEN /\ Abort("IndexError", "handler")
                           /\ UNCHANGED notices
                      ELSE /\ notices' =
                                 Append(notices, ModelNames(model, kpis)[1])
                           /\ Advance
              ELSE LET u == UpdateJson(model, f.content, kpis)
                   IN  IF u.status = "raised"
                       THEN /\ calls' = calls \o f.calls
                            /\ Abort(u.error, "update_json")
                            /\ UNCHANGED notices
                       ELSE /\ calls' = calls \o f.calls \o
                                  << Call("add_model_content", model,
                                          [content |-> Dumps(u.value),
                                           name |-> f.name],
                                          IF uploadOk THEN Replied(0)
                                          ELSE Failed) >>
                            /\ UNCHANGED notices
                            /\ IF uploadOk THEN Advance
                               ELSE Abort("ClientError", "upload")
    /\ UNCHANGED <<op, args, kpis, models_to_update>>

NextBatch == UK_GetKpis \/ UK_Iteration

SpecBatch == InitBatch /\ [][NextBatch]_vars

\* The repository calls made for a model of the list.
CallsFor(name, model) ==
    SelectSeq(calls, LAMBDA c : c.call = name /\ c.target = model)

\* The run of update_kpis ended, by returning or by a failure of one of the
\* kinds C1 lists: a model without a hyperparameter file, or a failure of the
\* repository client while it lists files, fetches content or uploads.
EndedOnListedFailuresOnly ==
    /\ op = "update_kpis"
    /\ pc \in {"done", "raised"}
    /\ result.stage \notin {"get_project_kpis", "handler", "update_json"}

\* C1: a failure raised while one model is processed (no hyperparameter
\* file, or a failure of the repository client during file listing, content
\* fetch or content upload) never aborts the batch: when update_kpis ends,
\* every model id of the list taken from the KPI table has been looked up,
\* and every one whose file was found and fetched has been sent an upload.
C1_BatchNeverAborts ==
    EndedOnListedFailuresOnly =>
        \A i \in 1..Len(models_to_update) :
            LET model == models_to_update[i]
            IN  model # NULL =>
                /\ CallsFor("get_model_contents", model) # <<>>
                /\ (\E k \in 1..Len(calls) :
                        /\ calls[k].call = "get_content"
                        /\ calls[k].target = model
                        /\ calls[k].reply.ok)
                      => CallsFor("add_model_content", model) # <<>>

RepositoryCalls ==
    SelectSeq(calls, LAMBDA c :
        c.call \in {"get_model_contents", "get_content", "add_model_content"})

\* The lookup of a model failed: its listing failed, or held no match (no
\* content GET follows it), or the content GET failed.
LookupFailedAt(k) ==
    LET c == RepositoryCalls[k]
    IN  \/ c.call \in {"get_model_contents", "get_content"} /\ ~c.reply.ok
        \/ /\ c.call = "get_model_contents"
           /\ c.reply.ok
           /\ (k = Len(RepositoryCalls)
                 \/ RepositoryCalls[k + 1].call # "get_content")

\* C10: update_kpis uploads only to a model id of the ModelUUID column whose
\* hyperparameter file lookup succeeded, at most once per model, right after
\* the model's own lookup (listing, then content) and so before the next
\* model's, under the stored name of the file fetched; a model whose lookup
\* failed gets no upload; and when get_project_kpis fails no lookup and no
\* upload is issued.
C10_UploadDiscipline ==
    op = "update_kpis" =>
        LET rc == RepositoryCalls
        IN  /\ \A k \in 1..Len(rc) :
                  rc[k].call = "add_model_content" =>
                    /\ \E r \in 1..Len(kpis.rows) : kpis.rows[r][1] = rc[k].target
                    /\ k >= 3
                    /\ rc[k - 1].call = "get_content"
                    /\ rc[k - 1].target = rc[k].target
                    /\ rc[k - 1].reply.ok
                    /\ rc[k - 2].call = "get_model_contents"
                    /\ rc[k - 2].target = rc[k].target
                    /\ rc[k - 2].reply.ok
                    /\ \E i \in 1..Len(rc[k - 2].reply.value) :
                          /\ rc[k - 2].reply.value[i].id = rc[k - 1].detail.file
                          /\ rc[k - 2].reply.value[i].name = rc[k].detail.name
                    /\ \A j \in 1..Len(rc) :
                          (j # k /\ rc[j].call = "add_model_content")
                              => rc[j].target # rc[k].target
            /\ \A k \in 1..Len(rc) :
                  LookupFailedAt(k) =>
                    \A j \in 1..Len(rc) :
                        rc[j].call = "add_model_content"
                            => rc[j].target # rc[k].target
            /\ result.stage = "get_project_kpis" => rc = <<>>

\* C10 witness: a finished run in which the first model's lookup failed and
\* was skipped and the second model was uploaded to.
C10_Witness ==
    /\ op = "update_kpis"
    /\ pc = "done"
    /\ Len(models_to_update) = 2
    /\ Len(notices) = 1
    /\ CallsFor("add_model_content", models_to_update[1]) = <<>>
    /\ Len(CallsFor("add_model_content", models_to_update[2])) = 1

====
